---- MODULE Spec2Model ----
\* A model of JiveHelix/transform: the runtime class decorator Transform
\* (python/transform/transform.py) and the mypy plugin that mirrors it
\* (python/transform/mypy_plugin/transform_plugin.py).
\*
\* Python strings are sequences of one-character strings, so that
\* startswith('_'), '.'.join(...) and "{}.{}".format(...) are computed and not
\* assumed.  Optional[str] is <<>> for None and <<s>> for the string s.
EXTENDS Integers, Sequences, FiniteSets, TLC

\* ---------------------------------------------------------------- bounds

\* Classes one run may create: by decoration, by model registration, in all.
MaxTransforms == 2
MaxModels == 2
MaxClasses == 3

\* ---------------------------------------------------------------- strings

\* The characters the model's names use, in code-point order.
Alphabet ==
    << ".", "A", "B", "D", "I", "J", "K", "M", "O", "_",
       "c", "f", "g", "h", "n", "o", "p", "x", "y" >>

Ord(ch) == CHOOSE i \in 1..Len(Alphabet) : Alphabet[i] = ch

\* a < b for Python strings (lexicographic by code point)
RECURSIVE StrLess(_, _)
StrLess(a, b) ==
    IF a = <<>> THEN b # <<>>
    ELSE IF b = <<>> THEN FALSE
    ELSE IF Head(a) = Head(b) THEN StrLess(Tail(a), Tail(b))
    ELSE Ord(Head(a)) < Ord(Head(b))

\* sorted(names) for a set of distinct strings
RECURSIVE Sorted(_)
Sorted(names) ==
    IF names = {} THEN <<>>
    ELSE LET least == CHOOSE n \in names :
                          \A m \in names \ {n} : StrLess(n, m)
         IN  <<least>> \o Sorted(names \ {least})

\* name.startswith("_")
StartsWithUnderscore(name) == Len(name) > 0 /\ Head(name) = "_"

\* '.'.join(parts)
RECURSIVE DotJoin(_)
DotJoin(parts) ==
    IF parts = <<>> THEN <<>>
    ELSE IF Len(parts) = 1 THEN parts[1]
    ELSE parts[1] \o <<".">> \o DotJoin(Tail(parts))

\* "{}.{}".format(a, b)
DotFormat(a, b) == a \o <<".">> \o b

NoneStr == <<>>
Some(s) == <<s>>

Range(s) == { s[i] : i \in 1..Len(s) }

\* ---------------------------------------------------------------- values

\* Every Python value of the model is a record with a field t.
IntV(i) == [t |-> "int", v |-> i]
Fn      == [t |-> "function"]
Meth    == [t |-> "method"]
Descr   == [t |-> "member_descriptor"]
Obj(pid, fields) == [t |-> "obj", proto |-> pid, fields |-> fields]

ModM        == <<"m">>
ModBuiltins == <<"b", "u", "i", "l", "t", "i", "n", "s">>

\* member names
Nc  == <<"c">>
NK  == <<"K">>
N_h == <<"_", "h">>
Nf  == <<"f">>
Ng  == <<"g">>
Nn  == <<"n">>
No  == <<"o">>
Np  == <<"p">>
Nx  == <<"x">>
N_y == <<"_", "y">>

\* ---------------------------------------------------------------- prototypes

\* The prototype classes of the runs.  fields are the attrs fields in
\* definition order; vars is the class namespace apart from them (class
\* variables, methods); outer is the enclosing class of a nested class, which
\* __qualname__ and mypy's fullname show and __name__ does not.
\*   1  m.A      x : field; c, _h, K : class variables, in this order in the
\*               class body; f : method
\*   2  m.B      p : field (an int or an A); n : class variable holding an A;
\*               g : classmethod; slotted
\*   3  m.O.A    _y, x : fields; o : class variable holding an O.A
\*   4  m.D      not an attrs class
A1(i) == Obj(1, Nx :> IntV(i))
A3(i) == Obj(3, (N_y :> IntV(i)) @@ (Nx :> IntV(0)))

Protos ==
    << [ module |-> ModM, name |-> <<"A">>, outer |-> <<>>,
         attrs |-> TRUE, slots |-> FALSE,
         fields |-> <<Nx>>,
         vars |-> (Nc :> IntV(1)) @@ (N_h :> IntV(2)) @@ (NK :> IntV(3))
                  @@ (Nf :> Fn) ],
       [ module |-> ModM, name |-> <<"B">>, outer |-> <<>>,
         attrs |-> TRUE, slots |-> TRUE,
         fields |-> <<Np>>,
         vars |-> (Nn :> A1(1)) @@ (Ng :> Meth) ],
       [ module |-> ModM, name |-> <<"A">>, outer |-> <<"O">>,
         attrs |-> TRUE, slots |-> FALSE,
         fields |-> <<N_y, Nx>>,
         vars |-> (No :> A3(0)) ],
       [ module |-> ModM, name |-> <<"D">>, outer |-> <<>>,
         attrs |-> FALSE, slots |-> FALSE,
         fields |-> <<>>,
         vars |-> (Nc :> IntV(1)) ] >>

ProtoIds == 1..Len(Protos)

\* The prototype objects the runs initialise instances from.
ProtoValues ==
    { A1(1), A3(1) } \cup { Obj(2, Np :> v) : v \in { IntV(0), A1(1) } }

\* ---------------------------------------------------------------- exceptions

Raise(exc) == [t |-> "raise", exc |-> exc]
IsRaise(v) == v.t = "raise"
NoneV      == [t |-> "None"]

\* ---------------------------------------------------------------- introspection

ProtoClass(pid) == [t |-> "class", proto |-> pid]

\* getattr(target, name) for a prototype class or a prototype object.  An
\* object gives its own field first, and a function of its class as a bound
\* method.
GetAttr(target, name) ==
    LET proto == Protos[target.proto]
        onClass ==
            IF name \in DOMAIN proto.vars THEN proto.vars[name]
            ELSE IF proto.slots /\ name \in Range(proto.fields) THEN Descr
            ELSE Raise("AttributeError")
    IN  IF target.t = "obj" /\ name \in DOMAIN target.fields
        THEN target.fields[name]
        ELSE IF target.t = "obj" /\ onClass = Fn THEN Meth
        ELSE onClass

\* type(value), as the class's __module__ and __name__
TypeOf(v) ==
    IF v.t = "obj"
    THEN [module |-> Protos[v.proto].module, name |-> Protos[v.proto].name]
    ELSE [module |-> ModBuiltins,
          name |-> CASE v.t = "int" -> <<"i", "n", "t">>
                     [] v.t = "function" -> <<"f", "u", "n", "c", "t", "i", "o", "n">>
                     [] v.t = "method" -> <<"m", "e", "t", "h", "o", "d">>
                     [] OTHER -> <<"m", "e", "m", "b", "e", "r", "_",
                                   "d", "e", "s", "c", "r", "i", "p", "t", "o", "r">>]

MethodType   == TypeOf(Meth)
FunctionType == TypeOf(Fn)

GetClassName(class_) == DotFormat(class_.module, class_.name)

\* type(getattr(protoType, memberName)); the AttributeError of getattr
\* leaves the function
GetMemberType(protoType, memberName) ==
    IF IsRaise(GetAttr(protoType, memberName))
    THEN GetAttr(protoType, memberName)
    ELSE TypeOf(GetAttr(protoType, memberName))

\* GetClassName(GetMemberType(protoType, memberName)), or the exception
GetMemberTypeName(protoType, memberName) ==
    IF IsRaise(GetAttr(protoType, memberName))
    THEN GetMemberType(protoType, memberName)
    ELSE GetClassName(GetMemberType(protoType, memberName))

\* dir(protoType): the sorted names of the class namespace.  A slotted attrs
\* class keeps a member descriptor for each field; a dict class keeps none.
\* Dunder names are left out: the first test of the loop skips them.
Dir(pid) ==
    Sorted(DOMAIN Protos[pid].vars
           \cup (IF Protos[pid].slots THEN Range(Protos[pid].fields) ELSE {}))

\* The field names without the private ones
FieldsDictPublic(pid) ==
    IF Protos[pid].attrs
    THEN [ t |-> "ok",
           keys |-> SelectSeq(Protos[pid].fields,
                              LAMBDA name : ~StartsWithUnderscore(name)) ]
    ELSE Raise("NotAnAttrsClassError")

\* list(attr.fields_dict(protoType).keys()); attrs raises for other classes
FieldsDict(pid) ==
    IF Protos[pid].attrs THEN [t |-> "ok", keys |-> Protos[pid].fields]
    ELSE Raise("NotAnAttrsClassError")

\* ---------------------------------------------------------------- makers

\* The attribute makers of the runs: a function or a class, with the
\* parameters a call binds (for a class, those of __init__ after self).
\*   1  def maker(name, value)
\*   2  def maker(value)
\*   3  class Maker: def __init__(self, name, value)
Makers ==
    << [isClass |-> FALSE, params |-> <<"name", "value">>],
       [isClass |-> FALSE, params |-> <<"value">>],
       [isClass |-> TRUE,  params |-> <<"name", "value">>] >>

MakerIds == 1..Len(Makers)

\* inspect.signature of what GetHasName inspects: the maker itself, or the
\* plain function __init__ of a class, whose first parameter is self
InspectedParams(mk) ==
    IF Makers[mk].isClass THEN <<"self">> \o Makers[mk].params
    ELSE Makers[mk].params

GetHasName(mk) == Head(InspectedParams(mk)) = "name"

\* The arguments of a call of the maker: (name, value) or (value)
Args2(name, value) == [n |-> 2, name |-> name, value |-> value]
Args1(value)       == [n |-> 1, value |-> value]

\* attributeMaker(*args): the attribute made, or TypeError when the
\* arguments do not fit the parameters
CallMaker(mk, args) ==
    IF args.n = Len(Makers[mk].params)
    THEN [t |-> "attr", maker |-> mk, args |-> args]
    ELSE [t |-> "raise", exc |-> "TypeError", maker |-> mk, args |-> args]

\* attribute.Get(): the value the attribute was made from
AttrGet(a) == a.args.value

\* attribute.GetInterfaceNode(): the interface node of a made attribute
GetInterfaceNode(a) == [t |-> "interface", node |-> a]

\* ---------------------------------------------------------------- classes

\* The classes the program creates are kept in a sequence; a class is named
\* by its place in it and 0 is object.  A class made by Transform has
\* transformed = TRUE and Transform's closure (proto, maker, hasName, init);
\* a model class is a subclass (base) of one.  userInit: the class body
\* defines __init__(self, protoType, name) calling InitializeModel.
\* definesGet: the class body defines Get() returning self.GetProtoType().
ObjectClass == 0

\* MakeNodeName of the closure of class cls
MakeNodeName(cls, name, instanceName) ==
    IF instanceName # NoneStr
    THEN DotJoin(<<cls.name, instanceName[1], name>>)
    ELSE DotJoin(<<cls.name, name>>)

\* TransformMember of the closure of class cls: one of the two definitions,
\* chosen by hasName_ when the class was decorated
TransformMember(cls, name, protoType, instanceName) ==
    LET value == GetAttr(protoType, name)
    IN  IF IsRaise(value) THEN value
        ELSE IF cls.hasName
        THEN CallMaker(cls.maker,
                       Args2(MakeNodeName(cls, name, instanceName), value))
        ELSE CallMaker(cls.maker, Args1(value))

\* The nearest class of ci's bases (ci included) that Transform made: the
\* class whose __transform_vars__, TransformMember and GetProtoType an
\* attribute lookup on ci finds.  0 when there is none.
RECURSIVE Owner(_, _)
Owner(classes, ci) ==
    IF ci = ObjectClass THEN ObjectClass
    ELSE IF classes[ci].transformed THEN ci
    ELSE Owner(classes, classes[ci].base)

\* The __init__ a call of class ci runs: "user" (the class body's, calling
\* InitializeModel), "generated" (Transform's, init=True) or "object".
RECURSIVE InitKind(_, _)
InitKind(classes, ci) ==
    IF ci = ObjectClass THEN "object"
    ELSE IF classes[ci].userInit THEN "user"
    ELSE IF classes[ci].transformed /\ classes[ci].init THEN "generated"
    ELSE InitKind(classes, classes[ci].base)

\* The class whose generated __init__ a call of ci runs
RECURSIVE InitOwner(_, _)
InitOwner(classes, ci) ==
    IF classes[ci].transformed /\ classes[ci].init THEN ci
    ELSE InitOwner(classes, classes[ci].base)

\* GetInstanceVars(class_): class_.__transform_vars__
GetInstanceVars(classes, ci) ==
    IF Owner(classes, ci) = ObjectClass THEN Raise("AttributeError")
    ELSE [t |-> "ok", keys |-> classes[Owner(classes, ci)].vars]

\* GetAllVars(class_): class_.__transform_all_vars__
GetAllVars(classes, ci) ==
    IF Owner(classes, ci) = ObjectClass THEN Raise("AttributeError")
    ELSE [t |-> "ok", keys |-> classes[Owner(classes, ci)].allVars]

\* A lookup that never finds the key
RegistryGetNothing(registry, key) == NoneV

\* registry.get(key, None) for either registry: the class, or None
RegistryGet(registry, key) ==
    IF key \in DOMAIN registry THEN [t |-> "class", cls |-> registry[key]]
    ELSE NoneV

\* A write that keeps the entry the key already has
RegistryPutIfAbsent(registry, key, ci) ==
    [ k \in DOMAIN registry \cup {key} |->
        IF k \in DOMAIN registry THEN registry[k] ELSE ci ]

\* registry[key] = class_
RegistryPut(registry, key, ci) ==
    [ k \in DOMAIN registry \cup {key} |->
        IF k = key THEN ci ELSE registry[k] ]

\* GetMemberModel giving None, and not RuntimeError, when the interface has
\* no registered model
GetMemberModelOrNone(ctx, protoType, name) ==
    LET memberInterface ==
            RegistryGet(ctx.reg, GetMemberTypeName(protoType, name))
    IN  IF IsRaise(GetAttr(protoType, name))
        THEN GetMemberTypeName(protoType, name)
        ELSE IF memberInterface = NoneV THEN NoneV
        ELSE RegistryGet(ctx.models,
                         GetClassName(ctx.classes[memberInterface.cls]))

\* GetMemberModel(protoType, name) with the registries of ctx
GetMemberModel(ctx, protoType, name) ==
    LET memberInterface ==
            RegistryGet(ctx.reg, GetMemberTypeName(protoType, name))
    IN  IF IsRaise(GetAttr(protoType, name))
        THEN GetMemberTypeName(protoType, name)
        ELSE IF memberInterface = NoneV THEN NoneV
        ELSE LET memberModel ==
                     RegistryGet(ctx.models,
                                 GetClassName(ctx.classes[memberInterface.cls]))
             IN  IF memberModel = NoneV THEN Raise("RuntimeError")
                 ELSE memberModel

\* memberName of a nested member
NestedName(namePrefix, name) ==
    IF namePrefix # NoneStr THEN DotFormat(namePrefix[1], name) ELSE name

\* An object of class ci after its __init__: name is the second argument of
\* the call that made it, members the attributes set on it, pex the call of
\* a pex initializer made for it (None: no call).
Instance(ci, name, members) ==
    [ t |-> "inst", cls |-> ci, name |-> name, members |-> members,
      pex |-> NoneV ]

\* attr.has(class_): the class statement, or a base of it, is an attrs class
RECURSIVE AttrHas(_, _)
AttrHas(classes, ci) ==
    IF ci = ObjectClass THEN FALSE
    ELSE IF classes[ci].attrsClass THEN TRUE
    ELSE AttrHas(classes, classes[ci].base)

\* PexModelInitializer(model, namePrefix): the call into pex, kept on the
\* object as the call that was made
PexModelInitializer(model, namePrefix) ==
    [ model EXCEPT !.pex = [ t |-> "PexModelInitializer",
                             namePrefix |-> namePrefix ] ]

\* PexInterfaceInitializer(userInterface, model): the call into pex, kept on
\* the object as the call that was made
PexInterfaceInitializer(userInterface, model) ==
    [ userInterface EXCEPT !.pex = [ t |-> "PexInterfaceInitializer",
                                     model |-> model ] ]

\* What a loop that sets members has done so far: the members set, or the
\* exception that ended it
Members(members) == [t |-> "ok", members |-> members]

\* setattr(self, name, made), unless making the member raised
SetMember(acc, name, made) ==
    IF IsRaise(made) THEN made
    ELSE Members((name :> made) @@ acc.members)

\* The object a finished loop leaves, after the lines that follow the loop:
\* if attr.has(...): PexModelInitializer(self, namePrefix)
Finish(ci, name, done, attrHas) ==
    IF IsRaise(done) THEN done
    ELSE IF attrHas
    THEN PexModelInitializer(Instance(ci, name, done.members), name)
    ELSE Instance(ci, name, done.members)

\* Construct: the call class(protoType, name), which runs the class's
\* __init__.  InitLoop: the loop of the generated __init__ of class owner,
\* InitMember one pass of it.  ModelLoop: the loop of InitializeModel,
\* ModelMember one pass of it.
RECURSIVE Construct(_, _, _, _)
RECURSIVE InitLoop(_, _, _, _, _, _)
RECURSIVE ModelLoop(_, _, _, _, _, _)

InitMember(ctx, owner, name, protoType, namePrefix) ==
    LET memberClass ==
            RegistryGet(ctx.reg, GetMemberTypeName(protoType, name))
    IN  IF IsRaise(GetAttr(protoType, name))
        THEN GetMemberTypeName(protoType, name)
        ELSE IF memberClass # NoneV
        THEN Construct(ctx, memberClass.cls, GetAttr(protoType, name),
                       Some(NestedName(namePrefix, name)))
        ELSE TransformMember(ctx.classes[owner], name, protoType, namePrefix)

InitLoop(ctx, owner, names, acc, protoType, namePrefix) ==
    IF names = <<>> \/ IsRaise(acc) THEN acc
    ELSE InitLoop(ctx, owner, Tail(names),
                  SetMember(acc, Head(names),
                            InitMember(ctx, owner, Head(names), protoType,
                                       namePrefix)),
                  protoType, namePrefix)

ModelMember(ctx, ci, name, protoType, namePrefix) ==
    LET memberModel == GetMemberModel(ctx, protoType, name)
    IN  IF IsRaise(memberModel) THEN memberModel
        ELSE IF memberModel # NoneV
        THEN Construct(ctx, memberModel.cls, GetAttr(protoType, name),
                       Some(NestedName(namePrefix, name)))
        ELSE TransformMember(ctx.classes[Owner(ctx.classes, ci)],
                             name, protoType, namePrefix)

ModelLoop(ctx, ci, names, acc, protoType, namePrefix) ==
    IF names = <<>> \/ IsRaise(acc) THEN acc
    ELSE ModelLoop(ctx, ci, Tail(names),
                   SetMember(acc, Head(names),
                             ModelMember(ctx, ci, Head(names), protoType,
                                         namePrefix)),
                   protoType, namePrefix)

\* InitializeModel(model, protoType, namePrefix) for a fresh model of class ci
InitializeModel(ctx, ci, protoType, namePrefix) ==
    LET vars == GetInstanceVars(ctx.classes, ci)
    IN  IF IsRaise(vars) THEN vars
        ELSE Finish(ci, namePrefix,
                    ModelLoop(ctx, ci, vars.keys, Members(<<>>), protoType,
                              namePrefix),
                    AttrHas(ctx.classes, ci))

\* The generated __init__(self, protoType, namePrefix) of class owner, run
\* for a fresh object of class ci
GeneratedInit(ctx, owner, ci, protoType, namePrefix) ==
    Finish(ci, namePrefix,
           InitLoop(ctx, owner, ctx.classes[owner].vars, Members(<<>>),
                    protoType, namePrefix),
           AttrHas(ctx.classes, owner))

Construct(ctx, ci, protoType, name) ==
    LET kind == InitKind(ctx.classes, ci)
    IN  IF kind = "user" THEN InitializeModel(ctx, ci, protoType, name)
        ELSE IF kind = "generated"
        THEN GeneratedInit(ctx, InitOwner(ctx.classes, ci), ci, protoType, name)
        ELSE Raise("TypeError")

\* ---------------------------------------------------------------- user interface

\* GetIsModelClass(class_): the name of the base is a key of the models
GetIsModelClass(ctx, ci) ==
    IF ctx.classes[ci].base = ObjectClass THEN FALSE
    ELSE GetClassName(ctx.classes[ctx.classes[ci].base])
             \in DOMAIN ctx.models

\* InitializeUserInterface(userInterface, model) for a fresh object of class
\* ci.  UILoop is its loop, UIMember one pass of it.
RECURSIVE InitializeUserInterface(_, _, _)
RECURSIVE UILoop(_, _, _, _)

\* type(modelNode).__base__() and the recursive call on it: the base takes
\* no argument only when its __init__ is object's
NestedInterface(ctx, base, modelNode) ==
    IF InitKind(ctx.classes, base) = "object"
    THEN InitializeUserInterface(ctx, base, modelNode)
    ELSE Raise("TypeError")

\* The value set for a member whose model node is modelNode: a nested user
\* interface for an object of a model class, else
\* modelNode.GetInterfaceNode(), which the classes of Transform do not have
InterfaceOf(ctx, modelNode) ==
    IF modelNode.t = "attr" THEN GetInterfaceNode(modelNode)
    ELSE IF GetIsModelClass(ctx, modelNode.cls)
    THEN NestedInterface(ctx, ctx.classes[modelNode.cls].base, modelNode)
    ELSE Raise("AttributeError")

\* modelNode = getattr(model, name) and the value set for it
UIMember(ctx, model, name) ==
    IF name \notin DOMAIN model.members THEN Raise("AttributeError")
    ELSE InterfaceOf(ctx, model.members[name])

UILoop(ctx, names, acc, model) ==
    IF names = <<>> \/ IsRaise(acc) THEN acc
    ELSE UILoop(ctx, Tail(names),
                SetMember(acc, Head(names), UIMember(ctx, model, Head(names))),
                model)

\* The user interface a finished loop leaves, after the lines that follow
\* the loop: if attr.has(type(userInterface)): PexInterfaceInitializer(...)
FinishInterface(ci, model, done, attrHas) ==
    IF IsRaise(done) THEN done
    ELSE IF attrHas
    THEN PexInterfaceInitializer(Instance(ci, NoneStr, done.members), model)
    ELSE Instance(ci, NoneStr, done.members)

\* The loop over the names, given GetInstanceVars(type(userInterface))
InterfaceFor(ctx, ci, model, names) ==
    IF IsRaise(names) THEN names
    ELSE FinishInterface(ci, model,
                         UILoop(ctx, names.keys, Members(<<>>), model),
                         AttrHas(ctx.classes, ci))

InitializeUserInterface(ctx, ci, model) ==
    InterfaceFor(ctx, ci, model, GetInstanceVars(ctx.classes, ci))

\* ---------------------------------------------------------------- Transform

\* The __name__ of the class statements of a run, in order of creation
ClassNames == << <<"I">>, <<"J">>, <<"M">>, <<"I">> >>

\* The class statement Transform decorates, with Transform's instance
\* variables (Transform.__init__) as its closure
NewClass(pid, mk, init, cname, definesGet, attrsClass) ==
    [ t |-> "type", module |-> ModM, name |-> cname, base |-> ObjectClass,
      transformed |-> TRUE, proto |-> pid, maker |-> mk,
      hasName |-> GetHasName(mk), init |-> init,
      userInit |-> FALSE, definesGet |-> definesGet,
      attrsClass |-> attrsClass,
      allVars |-> <<>>, vars |-> <<>>, attrs |-> <<>> ]

\* The three tests of the loop that pass over a name of dir(protoType):
\* private and dunder names, attrs fields, functions and methods
IsIgnored(protoType, name, attrsMembers) ==
    \/ StartsWithUnderscore(name)
    \/ name \in Range(attrsMembers)
    \/ GetMemberType(protoType, name) \in {MethodType, FunctionType}

\* One pass of the loop of Transform.__call__ for a name it does not pass
\* over: the attribute to set on class_
ClassMember(ctx, cls, name) ==
    LET protoType == ProtoClass(cls.proto)
        memberClass ==
            RegistryGet(ctx.reg, GetMemberTypeName(protoType, name))
    IN  IF memberClass # NoneV
        THEN Construct(ctx, memberClass.cls, GetAttr(protoType, name),
                       Some(name))
        ELSE TransformMember(cls, name, protoType, NoneStr)

\* SetClassVar with the name put at the front of classVars
SetClassVarPrepend(acc, name, made) ==
    IF IsRaise(made) THEN made
    ELSE [ t |-> "ok", classVars |-> <<name>> \o acc.classVars,
           attrs |-> (name :> made) @@ acc.attrs ]

\* setattr(class_, name, made) and classVars.append(name)
SetClassVar(acc, name, made) ==
    IF IsRaise(made) THEN made
    ELSE [ t |-> "ok", classVars |-> Append(acc.classVars, name),
           attrs |-> (name :> made) @@ acc.attrs ]

\* The loop of Transform.__call__ over dir(protoType): the class variables
\* appended and the attributes set on class_, or the exception that ended it
RECURSIVE ClassLoop(_, _, _, _, _)
ClassLoop(ctx, cls, names, acc, attrsMembers) ==
    IF names = <<>> \/ IsRaise(acc) THEN acc
    ELSE IF IsIgnored(ProtoClass(cls.proto), Head(names), attrsMembers)
    THEN ClassLoop(ctx, cls, Tail(names), acc, attrsMembers)
    ELSE ClassLoop(ctx, cls, Tail(names),
                   SetClassVar(acc, Head(names),
                               ClassMember(ctx, cls, Head(names))),
                   attrsMembers)

\* class_ with __transform_all_vars__, the attributes and __transform_vars__
\* set, unless the loop raised
FinishClass(cls, done) ==
    IF IsRaise(done) THEN done
    ELSE [cls EXCEPT !.allVars = done.classVars,
                     !.attrs = done.attrs,
                     !.vars = FieldsDict(cls.proto).keys]

\* Transform(protoType, attributeMaker, init).__call__(class_) up to the
\* write of the registry: class_ as it leaves the call, or the exception
TransformCall(ctx, pid, mk, init, cname, definesGet, attrsClass) ==
    LET cls == NewClass(pid, mk, init, cname, definesGet, attrsClass)
        attrsMembers == FieldsDict(pid)
    IN  IF IsRaise(attrsMembers) THEN attrsMembers
        ELSE FinishClass(cls,
                 ClassLoop(ctx, cls, Dir(pid),
                           [t |-> "ok", classVars |-> <<>>, attrs |-> <<>>],
                           attrsMembers.keys))

\* ---------------------------------------------------------------- GetProtoType

\* name.lstrip("_"): the keyword attrs gives the field in __init__
RECURSIVE LStrip(_)
LStrip(name) ==
    IF StartsWithUnderscore(name) THEN LStrip(Tail(name)) ELSE name

\* protoType(**values) for an attrs class: TypeError unless the keywords
\* are the __init__ parameters
NewProto(pid, values) ==
    LET params == { LStrip(f) : f \in Range(Protos[pid].fields) }
    IN  IF DOMAIN values # params THEN Raise("TypeError")
        ELSE Obj(pid, [f \in Range(Protos[pid].fields) |-> values[LStrip(f)]])

\* Whether an attribute lookup of Get on class ci finds the class body's
RECURSIVE HasGet(_, _)
HasGet(classes, ci) ==
    IF ci = ObjectClass THEN FALSE
    ELSE IF classes[ci].definesGet THEN TRUE
    ELSE HasGet(classes, classes[ci].base)

\* values[name] = got, unless Get() raised
SetValue(acc, name, got) ==
    IF IsRaise(got) THEN got
    ELSE [t |-> "ok", values |-> (name :> got) @@ acc.values]

\* self.protoType_(**values), unless collecting the values raised
FinishProto(pid, done) ==
    IF IsRaise(done) THEN done ELSE NewProto(pid, done.values)

\* GetProtoType(instance).  MemberGet is getattr(instance, name).Get().
RECURSIVE GetProtoType(_, _)
RECURSIVE ValuesLoop(_, _, _, _)

MemberGet(classes, instance, name) ==
    IF name \notin DOMAIN instance.members THEN Raise("AttributeError")
    ELSE IF instance.members[name].t = "attr"
    THEN AttrGet(instance.members[name])
    ELSE IF HasGet(classes, instance.members[name].cls)
    THEN GetProtoType(classes, instance.members[name])
    ELSE Raise("AttributeError")

ValuesLoop(classes, instance, names, acc) ==
    IF names = <<>> \/ IsRaise(acc) THEN acc
    ELSE ValuesLoop(classes, instance, Tail(names),
                    SetValue(acc, Head(names),
                             MemberGet(classes, instance, Head(names))))

GetProtoType(classes, instance) ==
    FinishProto(classes[Owner(classes, instance.cls)].proto,
                ValuesLoop(classes, instance,
                           classes[Owner(classes, instance.cls)].vars,
                           [t |-> "ok", values |-> <<>>]))

\* ---------------------------------------------------------------- plugin: nodes

\* mypy's nodes and types, as the plugin reads them.  Each is a record with
\* a field t: TypeInfo, FuncDef, Decorator, Var, MypyFile; Instance,
\* UnboundType, UnionType.

\* TypeInfo.fullname of a prototype: the module and the qualified name
FullName(pid) ==
    IF Protos[pid].outer = <<>>
    THEN DotFormat(Protos[pid].module, Protos[pid].name)
    ELSE DotFormat(Protos[pid].module,
                   DotFormat(Protos[pid].outer, Protos[pid].name))

BuiltinsInt == ModBuiltins \o <<".", "i", "n", "t">>

\* The TypeInfo of a prototype class
ProtoInfo(pid) == [t |-> "TypeInfo", of |-> "proto", pid |-> pid,
                   fullname |-> FullName(pid)]

\* The TypeInfo of an attribute class: V is generic, W is not
AttrInfo(name, generic) ==
    [t |-> "TypeInfo", of |-> "attribute", fullname |-> name,
     generic |-> generic]

InfoV == AttrInfo(<<"V">>, TRUE)
InfoW == AttrInfo(<<"W">>, FALSE)

\* The TypeInfo of builtins.int
IntInfo == [t |-> "TypeInfo", of |-> "builtin", fullname |-> BuiltinsInt]

\* mypy.types.Instance(typ, args)
InstanceOf(typ, args) == [t |-> "Instance", type |-> typ, args |-> args]

VarNode(type) == [t |-> "Var", type |-> type]
FuncDefNode(ret) == [t |-> "FuncDef", ret_type |-> ret]
DecoratorNode(isClassmethod, info) ==
    [t |-> "Decorator", is_classmethod |-> isClassmethod, info |-> info]

StaticInt == VarNode(InstanceOf(IntInfo, <<>>))

\* TypeInfo.names of each prototype, in the order of the class body
ProtoSymbols ==
    << << [name |-> Nx,  node |-> StaticInt],
          [name |-> Nc,  node |-> StaticInt],
          [name |-> N_h, node |-> StaticInt],
          [name |-> NK,  node |-> StaticInt],
          [name |-> Nf,  node |-> FuncDefNode(InstanceOf(IntInfo, <<>>))] >>,
       << [name |-> Np,  node |-> VarNode([t |-> "UnionType"])],
          [name |-> Nn,  node |-> VarNode(InstanceOf(ProtoInfo(1), <<>>))],
          [name |-> Ng,  node |-> DecoratorNode(TRUE, ProtoInfo(2))] >>,
       << [name |-> N_y, node |-> StaticInt],
          [name |-> Nx,  node |-> StaticInt],
          [name |-> No,  node |-> VarNode(InstanceOf(ProtoInfo(3), <<>>))] >>,
       << [name |-> Nc,  node |-> StaticInt] >> >>

\* ---------------------------------------------------------------- plugin: lookup

\* What context.api.lookup_fully_qualified_or_none gives for the expression
\* before the dot: None, or a node with a name, the node itself and its names.
\*   ModuleM   the module m, holding the prototype classes A and B
\*   ClassV    the attribute class V, with the classmethod Create, the
\*             staticmethod Make and the variable inst
ModuleM ==
    [ t |-> "found", name |-> "m", node |-> [t |-> "MypyFile"],
      names |-> ("A" :> ProtoInfo(1)) @@ ("B" :> ProtoInfo(2)) ]

ClassV ==
    [ t |-> "found", name |-> "V", node |-> InfoV,
      names |-> ("Create" :> DecoratorNode(TRUE, InfoV))
                @@ ("Make" :> DecoratorNode(FALSE, InfoV))
                @@ ("inst" :> StaticInt) ]

LookupMemberError == [t |-> "raise", exc |-> "LookupMemberError"]

\* lookup_member_expr(context, node): node.name looked up in nodeType
lookup_member_expr(node) ==
    LET nodeType == node.expr
    IN  IF nodeType = NoneV THEN Raise("AttributeError")
        ELSE IF nodeType.name = node.name THEN nodeType.node
        ELSE IF node.name \notin DOMAIN nodeType.names THEN LookupMemberError
        ELSE LET node_member == nodeType.names[node.name]
             IN  IF node_member.t = "TypeInfo" THEN node_member
                 ELSE IF node_member.t # "Decorator" THEN LookupMemberError
                 ELSE IF ~node_member.is_classmethod THEN LookupMemberError
                 ELSE node_member.info

\* ---------------------------------------------------------------- plugin: expressions

\* The arguments of the decorator call.  An expression is a NameExpr, a
\* MemberExpr (with what stands before the dot) or a CallExpr (with the node
\* of its callee); node is None while mypy has not resolved it.
NameExpr(node) == [t |-> "NameExpr", node |-> node]
MemberExpr(expr, name, node) ==
    [t |-> "MemberExpr", expr |-> expr, name |-> name, node |-> node]
CallExpr(callee) == [t |-> "CallExpr", callee |-> callee]

\* A class with __call__ returning an Instance of V, as the callee of a call
FunctorInfo ==
    [ t |-> "TypeInfo", of |-> "functor", call_ret_type |-> InfoV ]

ProtoExprs ==
    { NameExpr(ProtoInfo(pid)) : pid \in {1, 2, 3} }
    \cup { NameExpr(NoneV),
           MemberExpr(ModuleM, "A", ProtoInfo(1)),
           MemberExpr(ModuleM, "A", NoneV),
           MemberExpr(ModuleM, "Z", NoneV),
           MemberExpr(NoneV, "A", NoneV) }

AttrExprs ==
    { NameExpr(InfoV), NameExpr(InfoW), NameExpr(NoneV),
      NameExpr(FuncDefNode(InstanceOf(InfoV, <<>>))),
      NameExpr(FuncDefNode([t |-> "UnboundType"])),
      NameExpr(FuncDefNode([t |-> "UnionType"])),
      NameExpr(VarNode(InstanceOf(InfoV, <<>>))),
      MemberExpr(ClassV, "Create", NoneV),
      MemberExpr(ClassV, "V", NoneV),
      MemberExpr(ClassV, "Make", NoneV),
      MemberExpr(ClassV, "inst", NoneV),
      MemberExpr(ClassV, "zz", NoneV),
      MemberExpr(NoneV, "Create", NoneV),
      CallExpr(FunctorInfo), CallExpr(NoneV) }

\* The third argument of the decorator call: absent, True or False
InitArgs == { "absent", "True", "False" }

\* ---------------------------------------------------------------- plugin: transform

\* typeInfoByProtoTypeName.get(proto_node.node.type.type.fullname, None),
\* with None for a type that has no TypeInfo (the AttributeError caught)
NestedTypeInfo(registry, node) ==
    IF node.t = "Var" /\ node.type.t = "Instance"
    THEN RegistryGet(registry, node.type.type.fullname)
    ELSE NoneV

\* The type the plugin gives the copy of a member
RetypedAs(registry, node, attribute_type_node) ==
    IF NestedTypeInfo(registry, node) # NoneV
    THEN InstanceOf([ t |-> "TypeInfo", of |-> "transformed",
                      cls |-> NestedTypeInfo(registry, node).cls ], <<>>)
    ELSE InstanceOf(attribute_type_node,
                    IF attribute_type_node.generic THEN <<node.type>>
                    ELSE <<>>)

\* One pass of the loop of transform_type_info: the names table with the
\* member retyped.  The copy of a Decorator takes neither _fullname nor type:
\* AttributeError, with the members retyped so far left in the table.
RetypeMember(registry, acc, symbol, attribute_type_node) ==
    IF symbol.node.t = "Decorator"
    THEN [ t |-> "raise", exc |-> "AttributeError", names |-> acc.names ]
    ELSE [ t |-> "ok",
           names |-> (symbol.name :>
                          RetypedAs(registry, symbol.node, attribute_type_node))
                     @@ acc.names,
           transformedNames |-> Append(acc.transformedNames, symbol.name) ]

\* The loop of transform_type_info over the names of the prototype
RECURSIVE RetypeLoop(_, _, _, _)
RetypeLoop(registry, symbols, acc, attribute_type_node) ==
    IF symbols = <<>> \/ IsRaise(acc) THEN acc
    ELSE IF StartsWithUnderscore(Head(symbols).name)
    THEN RetypeLoop(registry, Tail(symbols), acc, attribute_type_node)
    ELSE IF Head(symbols).node.t = "FuncDef"
    THEN RetypeLoop(registry, Tail(symbols), acc, attribute_type_node)
    ELSE RetypeLoop(registry, Tail(symbols),
                    RetypeMember(registry, acc, Head(symbols),
                                 attribute_type_node),
                    attribute_type_node)

\* The methods add_method_to_class adds
AddedMethods(init) ==
    IF init THEN {"__init__", "GetProtoType"} ELSE {"GetProtoType"}

\* The TypeInfo a finished loop leaves: the names retyped and the methods
\* added, each with its return type
FinishInfo(transformed_info, proto_type_node, init, done) ==
    IF IsRaise(done) THEN done
    ELSE [ transformed_info EXCEPT
             !.names = done.names,
             !.methods = [ name \in AddedMethods(init) |->
                             IF name = "GetProtoType"
                             THEN InstanceOf(proto_type_node, <<>>)
                             ELSE [t |-> "NoneType"] ]
                         @@ transformed_info.methods ]

\* transform_type_info(context, proto_type_node, attribute_type_node, init)
\* with context.cls.info = transformed_info: the info as the call leaves it,
\* or the exception and the names table as the exception leaves it
transform_type_info(registry, transformed_info, proto_type_node, attribute_type_node, init) ==
    FinishInfo(transformed_info, proto_type_node, init,
               RetypeLoop(registry, ProtoSymbols[proto_type_node.pid],
                          [t |-> "ok", names |-> transformed_info.names,
                           transformedNames |-> <<>>],
                          attribute_type_node))

\* ---------------------------------------------------------------- plugin: callback

Defer == [t |-> "defer"]
Return(printed) == [t |-> "return", printed |-> printed]

\* Lines 81-86: the node of the attribute type, or the exception that the
\* read of an unresolved callee raises
AttributeTypeNode(attribute_type) ==
    IF attribute_type.t = "CallExpr"
    THEN IF attribute_type.callee = NoneV THEN Raise("AttributeError")
         ELSE attribute_type.callee.call_ret_type
    ELSE attribute_type.node

\* Lines 95-101: the prototype node after the lookup of an unresolved one
ResolveProto(proto_type) ==
    IF proto_type.node # NoneV THEN proto_type.node
    ELSE IF proto_type.t # "MemberExpr"
    THEN Return("No way to lookup prototype node.")
    ELSE lookup_member_expr(proto_type)

\* Lines 108-113: the try statement.  Its except clause names
\* MemberLookupError, which the module does not define: an exception in the
\* body makes the clause raise NameError.
TryLookup(attribute_type) ==
    IF IsRaise(lookup_member_expr(attribute_type)) THEN Raise("NameError")
    ELSE lookup_member_expr(attribute_type)

\* Lines 103-113: the attribute node after the lookup of an unresolved one
ResolveAttribute(attribute_type, attribute_type_node) ==
    IF attribute_type_node # NoneV THEN attribute_type_node
    ELSE IF attribute_type.t # "MemberExpr"
    THEN Return("No way to lookup attribute_type node.")
    ELSE TryLookup(attribute_type)

\* Lines 115-134: a free standing function gives its return type
FromFuncDef(final, attribute_type_node) ==
    IF attribute_type_node.t # "FuncDef" THEN attribute_type_node
    ELSE IF attribute_type_node.ret_type.t = "Instance"
    THEN attribute_type_node.ret_type.type
    ELSE IF attribute_type_node.ret_type.t = "UnboundType"
    THEN IF ~final THEN Defer ELSE Return("Unable to find return type")
    ELSE attribute_type_node

\* Lines 141-147: context.cls.info and the key it is filed under
Transformed(proto_type_node, info) ==
    IF IsRaise(info) THEN info
    ELSE [ t |-> "transformed", info |-> info,
           key |-> proto_type_node.fullname ]

\* Lines 136-147, given both nodes
TransformOrReturn(registry, transformed_info, proto_type_node, attribute_type_node, init) ==
    IF attribute_type_node.t # "TypeInfo"
    THEN Return("Unable to determine the attribute type")
    ELSE Transformed(proto_type_node,
                     transform_type_info(registry, transformed_info,
                                         proto_type_node, attribute_type_node,
                                         init))

\* Lines 115-147, given both nodes
WithBothNodes(registry, transformed_info, final, proto_type_node, attribute_type_node, init) ==
    IF FromFuncDef(final, attribute_type_node).t \in {"defer", "return"}
    THEN FromFuncDef(final, attribute_type_node)
    ELSE TransformOrReturn(registry, transformed_info, proto_type_node,
                           FromFuncDef(final, attribute_type_node), init)

\* Lines 103-147, given the prototype node
WithProtoNode(registry, transformed_info, final, proto_type_node, attribute_type, attribute_type_node, init) ==
    IF ResolveAttribute(attribute_type, attribute_type_node).t
           \in {"raise", "return"}
    THEN ResolveAttribute(attribute_type, attribute_type_node)
    ELSE WithBothNodes(registry, transformed_info, final, proto_type_node,
                       ResolveAttribute(attribute_type, attribute_type_node),
                       init)

\* Lines 88-147, given the attribute node of lines 81-86
AfterAttributeNode(registry, transformed_info, final, proto_type, attribute_type, attribute_type_node, init) ==
    IF ~final /\ (proto_type.node = NoneV \/ attribute_type_node = NoneV)
    THEN Defer
    ELSE IF ResolveProto(proto_type).t \in {"raise", "return"}
    THEN ResolveProto(proto_type)
    ELSE WithProtoNode(registry, transformed_info, final, ResolveProto(proto_type),
                       attribute_type, attribute_type_node, init)

\* transform_class_maker_callback(context): what the call does, one of
\* defer (context.api.defer() and return), return (a message printed and
\* return), raise (an exception leaves the callback) or transformed (the
\* TypeInfo that becomes context.cls.info, and its key in the registry)
transform_class_maker_callback(registry, transformed_info, final, proto_type, attribute_type, initArg) ==
    IF IsRaise(AttributeTypeNode(attribute_type))
    THEN AttributeTypeNode(attribute_type)
    ELSE AfterAttributeNode(registry, transformed_info, final, proto_type,
                            attribute_type, AttributeTypeNode(attribute_type),
                            initArg = "True")

\* ---------------------------------------------------------------- state

VARIABLES
    classByProtoTypeName,   \* Transform.classByProtoTypeName
    modelByInterfaceName,   \* transform.modelByInterfaceName
    classes,                \* the classes created, in order of creation
    typeInfoByProtoTypeName,    \* transform_plugin.typeInfoByProtoTypeName
    infos,                  \* the TypeInfo of each decorated class statement
    last                    \* the last call and what it returned or raised

vars == <<classByProtoTypeName, modelByInterfaceName, classes,
          typeInfoByProtoTypeName, infos, last>>

runtimeVars == <<classByProtoTypeName, modelByInterfaceName, classes>>
pluginVars  == <<typeInfoByProtoTypeName, infos>>

Ctx == [ reg |-> classByProtoTypeName, models |-> modelByInterfaceName,
         classes |-> classes ]

Prefixes == { NoneStr, Some(<<"M">>) }

\* The bodies of the decorated class statements: plain, defining Get(), or
\* an attrs class
ClassBodies ==
    { [definesGet |-> FALSE, attrsClass |-> FALSE],
      [definesGet |-> TRUE,  attrsClass |-> FALSE],
      [definesGet |-> FALSE, attrsClass |-> TRUE] }

ClassIds == 1..Len(classes)

NumTransforms == Cardinality({ ci \in ClassIds : classes[ci].transformed })
NumModels     == Cardinality({ ci \in ClassIds : ~classes[ci].transformed })

\* The class statements the plugin is called for, by name
ClassStmts == { <<"I">>, <<"J">> }

\* The TypeInfo of a class statement before the plugin has touched it
FreshInfo(cname) ==
    [ t |-> "TypeInfo", fullname |-> DotFormat(ModM, cname),
      names |-> <<>>, methods |-> <<>> ]

Init ==
    /\ classByProtoTypeName = <<>>
    /\ modelByInterfaceName = <<>>
    /\ classes = <<>>
    /\ typeInfoByProtoTypeName = <<>>
    /\ infos = [ cname \in ClassStmts |-> FreshInfo(cname) ]
    /\ last = [op |-> "none"]

\* @Transform(Protos[pid], Makers[mk], init) on the next class statement
Decorate(pid, mk, init, definesGet, attrsClass) ==
    LET ci   == Len(classes) + 1
        made == TransformCall(Ctx, pid, mk, init, ClassNames[ci], definesGet,
                              attrsClass)
    IN  /\ Len(classes) < MaxClasses
        /\ NumTransforms < MaxTransforms
        /\ IF IsRaise(made)
           THEN /\ UNCHANGED <<classByProtoTypeName, classes>>
                /\ last' = [op |-> "Transform", proto |-> pid, maker |-> mk,
                            result |-> made]
           ELSE /\ classes' = Append(classes, made)
                /\ classByProtoTypeName' =
                       RegistryPut(classByProtoTypeName,
                                   GetClassName(Protos[pid]), ci)
                /\ last' = [op |-> "Transform", proto |-> pid, maker |-> mk,
                            result |-> [t |-> "class", cls |-> ci]]
        /\ UNCHANGED modelByInterfaceName
        /\ UNCHANGED pluginVars

\* classes[ci](protoType, namePrefix), for a class whose __init__ is the one
\* Transform generated
CallInit(ci, protoType, namePrefix) ==
    /\ InitKind(classes, ci) = "generated"
    /\ protoType.proto = classes[Owner(classes, ci)].proto
    /\ last' = [op |-> "__init__", cls |-> ci, protoType |-> protoType,
                namePrefix |-> namePrefix,
                result |-> Construct(Ctx, ci, protoType, namePrefix)]
    /\ UNCHANGED <<classByProtoTypeName, modelByInterfaceName, classes>>
    /\ UNCHANGED pluginVars

\* InitializeModel(model, protoType, namePrefix) for a new object of classes[ci]
CallInitializeModel(ci, protoType, namePrefix) ==
    /\ Owner(classes, ci) # ObjectClass
    /\ protoType.proto = classes[Owner(classes, ci)].proto
    /\ last' = [op |-> "InitializeModel", cls |-> ci, protoType |-> protoType,
                namePrefix |-> namePrefix,
                result |-> InitializeModel(Ctx, ci, protoType, namePrefix)]
    /\ UNCHANGED <<classByProtoTypeName, modelByInterfaceName, classes>>
    /\ UNCHANGED pluginVars

\* instance.GetProtoType() for the instance the last call initialised
CallGetProtoType ==
    /\ last.op \in {"__init__", "InitializeModel"}
    /\ last.result.t = "inst"
    /\ last' = [op |-> "GetProtoType", instance |-> last.result,
                protoType |-> last.protoType,
                result |-> GetProtoType(classes, last.result)]
    /\ UNCHANGED <<classByProtoTypeName, modelByInterfaceName, classes>>
    /\ UNCHANGED pluginVars

\* InitializeUserInterface(userInterface, model) for a new object of
\* classes[ci], made without arguments, and the model the last call
\* initialised
CallInitializeUserInterface(ci) ==
    /\ last.op \in {"__init__", "InitializeModel"}
    /\ last.result.t = "inst"
    /\ InitKind(classes, ci) = "object"
    /\ last' = [op |-> "InitializeUserInterface", cls |-> ci,
                model |-> last.result,
                result |-> InitializeUserInterface(Ctx, ci, last.result)]
    /\ UNCHANGED <<classByProtoTypeName, modelByInterfaceName, classes>>
    /\ UNCHANGED pluginVars

\* The key under the class's own name
ModelKeyOwnName(class_) == GetClassName(class_)

\* name = GetClassName(class_.__base__)
ModelKey(class_) == GetClassName(classes[class_.base])

\* @RegisterModel on the next class statement, whose base is classes[base]
\* (base 0: object)
RegisterModel(base, userInit) ==
    LET ci     == Len(classes) + 1
        class_ == [ t |-> "type", module |-> ModM, name |-> ClassNames[ci],
                    base |-> base, transformed |-> FALSE,
                    userInit |-> userInit, definesGet |-> FALSE,
                    attrsClass |-> FALSE ]
    IN  IF base = ObjectClass
        THEN /\ last' = [op |-> "RegisterModel", base |-> base,
                         result |-> Raise("ValueError")]
             /\ UNCHANGED <<classByProtoTypeName, modelByInterfaceName, classes>>
             /\ UNCHANGED pluginVars
        ELSE /\ Len(classes) < MaxClasses
             /\ NumModels < MaxModels
             /\ classes' = Append(classes, class_)
             /\ modelByInterfaceName' =
                    RegistryPut(modelByInterfaceName, ModelKey(class_), ci)
             /\ last' = [op |-> "RegisterModel", base |-> base,
                         result |-> [t |-> "class", cls |-> ci]]
             /\ UNCHANGED classByProtoTypeName
             /\ UNCHANGED pluginVars

\* GetMemberModel(protoType, name) for a member of protoType
CallGetMemberModel(protoType, name) ==
    /\ name \in DOMAIN protoType.fields
    /\ last' = [op |-> "GetMemberModel", protoType |-> protoType,
                name |-> name,
                result |-> GetMemberModel(Ctx, protoType, name)]
    /\ UNCHANGED <<classByProtoTypeName, modelByInterfaceName, classes>>
    /\ UNCHANGED pluginVars

Next ==
    \/ \E pid \in ProtoIds, mk \in MakerIds, init \in BOOLEAN,
          body \in ClassBodies :
           Decorate(pid, mk, init, body.definesGet, body.attrsClass)
    \/ \E ci \in ClassIds, p \in ProtoValues, pre \in Prefixes :
           CallInit(ci, p, pre)
    \/ \E ci \in ClassIds, p \in ProtoValues, pre \in Prefixes :
           CallInitializeModel(ci, p, pre)
    \/ CallGetProtoType
    \/ \E ci \in ClassIds : CallInitializeUserInterface(ci)
    \/ \E base \in {ObjectClass} \cup ClassIds, userInit \in BOOLEAN :
           RegisterModel(base, userInit)
    \/ \E p \in ProtoValues, name \in {Nx, Np, N_y} :
           CallGetMemberModel(p, name)

Spec == Init /\ [][Next]_vars

\* ---------------------------------------------------------------- plugin: state

\* context.cls.info after the call: replaced by a transformed info, left with
\* the names an exception of transform_type_info leaves, or untouched
InfoAfter(info, result) ==
    IF result.t = "transformed" THEN result.info
    ELSE IF result.t = "raise" /\ "names" \in DOMAIN result
    THEN [info EXCEPT !.names = result.names]
    ELSE info

\* mypy's call of the hook for the class statement cname, decorated with
\* Transform(proto_type, attribute_type[, initArg]), on a pass that is final
\* or not.  The passes over a class statement go on while its TypeInfo is as
\* the semantic analysis made it.
Callback(cname, final, proto_type, attribute_type, initArg) ==
    LET result == transform_class_maker_callback(
                      typeInfoByProtoTypeName, infos[cname], final,
                      proto_type, attribute_type, initArg)
    IN  /\ infos[cname] = FreshInfo(cname)
        /\ infos' = [infos EXCEPT ![cname] = InfoAfter(infos[cname], result)]
        /\ typeInfoByProtoTypeName' =
               IF result.t = "transformed"
               THEN RegistryPut(typeInfoByProtoTypeName, result.key, cname)
               ELSE typeInfoByProtoTypeName
        /\ last' = [op |-> "callback", cls |-> cname, final |-> final,
                    proto_type |-> proto_type,
                    attribute_type |-> attribute_type, result |-> result]
        /\ UNCHANGED runtimeVars

PluginNext ==
    \E cname \in ClassStmts, final \in BOOLEAN, proto_type \in ProtoExprs,
       attribute_type \in AttrExprs, initArg \in InitArgs :
        Callback(cname, final, proto_type, attribute_type, initArg)

PluginSpec == Init /\ [][PluginNext]_vars

\* The same class statements decorated at run time and seen by the plugin on
\* its final pass, with every name resolved
MirrorNext ==
    \/ \E pid \in ProtoIds, init \in BOOLEAN :
           Decorate(pid, 1, init, FALSE, FALSE)
    \/ \E cname \in ClassStmts, pid \in ProtoIds,
          attribute_type \in {NameExpr(InfoV), NameExpr(InfoW)},
          initArg \in InitArgs :
           Callback(cname, TRUE, NameExpr(ProtoInfo(pid)), attribute_type,
                    initArg)

MirrorSpec == Init /\ [][MirrorNext]_vars

\* ---------------------------------------------------------------- C1

TransformedIds == { ci \in ClassIds : classes[ci].transformed }

\* The place of name in the sequence names
IndexOf(names, name) == CHOOSE i \in 1..Len(names) : names[i] = name

\* A public data member of the prototype: a name of dir(protoType) that does
\* not start with '_', is no attrs field, and holds no function or method
IsPublicData(pid, name) ==
    /\ name \in Range(Dir(pid))
    /\ Head(name) # "_"
    /\ \A i \in 1..Len(Protos[pid].fields) : Protos[pid].fields[i] # name
    /\ GetAttr(ProtoClass(pid), name).t \notin {"function", "method"}

\* C1: a class that Transform returned carries an attribute from the
\* prototype for exactly the prototype's public data members, and
\* __transform_all_vars__ lists exactly these names, in the order of
\* dir(protoType), each once.
C1_PublicDataMembers ==
    \A ci \in TransformedIds :
        LET c == classes[ci]
            d == Dir(c.proto)
        IN  /\ \A name \in Range(d) :
                   name \in Range(c.allVars) <=> IsPublicData(c.proto, name)
            /\ Range(c.allVars) \subseteq Range(d)
            /\ DOMAIN c.attrs = Range(c.allVars)
            /\ \A i, j \in 1..Len(c.allVars) :
                   i < j => IndexOf(d, c.allVars[i]) < IndexOf(d, c.allVars[j])
            /\ \A i, j \in 1..Len(c.allVars) :
                   i # j => c.allVars[i] # c.allVars[j]

\* A prototype with two public class variables, which dir() lists in the
\* other order than the class body (K before c), beside a private class
\* variable, a field and a method, has been decorated, and so has a slotted
\* prototype whose field is in dir() beside a classmethod.
C1_Witness ==
    /\ \E ci \in TransformedIds :
           /\ classes[ci].proto = 1
           /\ classes[ci].allVars = <<NK, Nc>>
           /\ Dir(1) = <<NK, N_h, Nc, Nf>>
    /\ \E ci \in TransformedIds :
           classes[ci].proto = 2 /\ classes[ci].allVars = <<Nn>>

\* ---------------------------------------------------------------- C2

\* The member was built by calling the already-transformed class that the
\* registry reg holds for the type of value, with the value and a name
BuiltByTransformedClass(member, reg, value, name) ==
    /\ member.t = "inst"
    /\ member.cls = reg[GetClassName(TypeOf(value))]
    /\ member.name = Some(name)

\* The member was built by the attribute maker of class c from value
BuiltByMaker(member, c, value) ==
    /\ member.t = "attr"
    /\ member.maker = c.maker
    /\ member.args.value = value

\* The members a returned Transform.__call__ set on the new class
C2_ClassMembers ==
    (last'.op = "Transform" /\ last'.result.t = "class") =>
        LET c == classes'[last'.result.cls]
        IN  \A name \in Range(c.allVars) :
                LET value == GetAttr(ProtoClass(c.proto), name)
                IN  IF GetClassName(TypeOf(value)) \in DOMAIN classByProtoTypeName
                    THEN BuiltByTransformedClass(c.attrs[name],
                             classByProtoTypeName, value, name)
                    ELSE BuiltByMaker(c.attrs[name], c, value)

\* The members a returned generated __init__ set on the new object
C2_InstanceMembers ==
    (last'.op = "__init__" /\ last'.result.t = "inst") =>
        LET c == classes[InitOwner(classes, last'.cls)]
        IN  \A name \in Range(c.vars) :
                LET value == GetAttr(last'.protoType, name)
                IN  IF GetClassName(TypeOf(value)) \in DOMAIN classByProtoTypeName
                    THEN BuiltByTransformedClass(last'.result.members[name],
                             classByProtoTypeName, value,
                             NestedName(last'.namePrefix, name))
                    ELSE BuiltByMaker(last'.result.members[name], c, value)

\* C2: a member that Transform.__call__ or the generated __init__ processes
\* is built by the already-transformed class exactly when the qualified name
\* of its value's type is a key of classByProtoTypeName as the call begins,
\* and by the attribute maker otherwise.
C2_NestedIffRegistered == [][C2_ClassMembers /\ C2_InstanceMembers]_vars

\* A generated __init__ nested the member p of an object of a class whose
\* decoration nested the class variable n, and built another by the maker.
C2_Witness ==
    /\ last.op = "__init__"
    /\ last.result.t = "inst"
    /\ Np \in DOMAIN last.result.members
    /\ last.result.members[Np].t = "inst"
    /\ classes[last.cls].attrs[Nn].t = "inst"
    /\ \E ci \in TransformedIds :
           Nc \in DOMAIN classes[ci].attrs /\ classes[ci].attrs[Nc].t = "attr"

\* ---------------------------------------------------------------- C3

\* The key Transform files the class ci under
KeyOf(ci) == GetClassName(Protos[classes[ci].proto])

\* The greatest number of a set of class numbers
Latest(ids) == CHOOSE ci \in ids : \A cj \in ids : cj <= ci

\* The class variables of class ci that its decoration nested, each with the
\* prototype value it holds
NestedVars(ci) ==
    { name \in Range(classes[ci].allVars) : classes[ci].attrs[name].t = "inst" }

ValueOf(ci, name) == GetAttr(ProtoClass(classes[ci].proto), name)

\* The registry holds, under the key of every decorated prototype, the class
\* of the last decoration filed under that key, and nothing else.
C3_LastWins ==
    /\ DOMAIN classByProtoTypeName = { KeyOf(ci) : ci \in TransformedIds }
    /\ \A ci \in TransformedIds :
           classByProtoTypeName[KeyOf(ci)] =
               Latest({ cj \in TransformedIds : KeyOf(cj) = KeyOf(ci) })

\* No step removes an entry.
C3_NeverRemoved ==
    [][DOMAIN classByProtoTypeName \subseteq DOMAIN classByProtoTypeName']_vars

\* C3 as the claim states it: last decoration wins, and a member whose type
\* is prototype P is nested only if P was decorated before the containing
\* prototype, and never while P itself is being transformed.
C3_Original ==
    /\ C3_LastWins
    /\ \A ci \in TransformedIds : \A name \in NestedVars(ci) :
           /\ \E cj \in TransformedIds :
                  cj < ci /\ classes[cj].proto = ValueOf(ci, name).proto
           /\ ValueOf(ci, name).proto # classes[ci].proto

\* C3 (amended): last decoration wins under each '<module>.<name>'; a class
\* variable is nested by a decoration only if an earlier decoration was filed
\* under the '<module>.<name>' of its type, and then with the class of the
\* last such decoration; the first decoration filed under a key nests no
\* member of that key.
C3_Registry ==
    /\ C3_LastWins
    /\ \A ci \in TransformedIds : \A name \in NestedVars(ci) :
           LET earlier == { cj \in TransformedIds :
                               /\ cj < ci
                               /\ KeyOf(cj) = GetClassName(TypeOf(ValueOf(ci, name))) }
           IN  /\ earlier # {}
               /\ classes[ci].attrs[name].cls = Latest(earlier)
    /\ \A ci \in TransformedIds :
           (\A cj \in TransformedIds : cj < ci => KeyOf(cj) # KeyOf(ci)) =>
               \A name \in Range(classes[ci].allVars) :
                   GetClassName(TypeOf(ValueOf(ci, name))) = KeyOf(ci) =>
                       classes[ci].attrs[name].t = "attr"

\* Prototype 3 was decorated twice: the first decoration built its class
\* variable o, of its own type, by the maker; the second nested it.
C3_Witness ==
    \E ci, cj \in TransformedIds :
        /\ cj < ci
        /\ classes[ci].proto = 3 /\ classes[cj].proto = 3
        /\ classes[cj].attrs[No].t = "attr"
        /\ classes[ci].attrs[No].t = "inst"
        /\ classByProtoTypeName[KeyOf(ci)] = ci

\* ---------------------------------------------------------------- C4

\* Every member of the instance answers Get() with the value it was made
\* from: an attribute does, and a nested object does when its class defines
\* Get() and its own members do.
RECURSIVE EveryGetAnswers(_)
EveryGetAnswers(instance) ==
    \A name \in DOMAIN instance.members :
        LET member == instance.members[name]
        IN  member.t = "inst" =>
                HasGet(classes, member.cls) /\ EveryGetAnswers(member)

\* C4: GetProtoType of an instance initialised from the prototype object p
\* returns a prototype object with the fields of __transform_vars__, each
\* equal to the field of p.
C4_RoundTrip ==
    (last.op = "GetProtoType" /\ EveryGetAnswers(last.instance)) =>
        /\ last.result.t = "obj"
        /\ DOMAIN last.result.fields =
               Range(classes[Owner(classes, last.instance.cls)].vars)
        /\ last.result = last.protoType

\* ---------------------------------------------------------------- C5

\* The maker's first parameter is 'name'
FirstIsName(mk) == Makers[mk].params[1] = "name"

\* The arguments the claim gives a call of the maker of class c for a member
ArgsAsClaimed(c, args, member, instanceName) ==
    IF FirstIsName(c.maker)
    THEN /\ args.n = 2
         /\ args.name =
                IF instanceName = NoneStr
                THEN c.name \o <<".">> \o member
                ELSE c.name \o <<".">> \o instanceName[1] \o <<".">> \o member
    ELSE args.n = 1

\* The names given in the calls that returned
C5_NamesOfMadeMembers ==
    /\ \A ci \in TransformedIds : \A name \in DOMAIN classes[ci].attrs :
           classes[ci].attrs[name].t = "attr" =>
               ArgsAsClaimed(classes[ci], classes[ci].attrs[name].args,
                             name, NoneStr)
    /\ (last.op \in {"__init__", "InitializeModel"} /\ last.result.t = "inst") =>
           \A name \in DOMAIN last.result.members :
               LET member == last.result.members[name]
               IN  IF member.t = "attr"
                   THEN ArgsAsClaimed(classes[Owner(classes, last.cls)],
                                      member.args, name, last.namePrefix)
                   ELSE member.name =
                            IF last.namePrefix = NoneStr THEN Some(name)
                            ELSE Some(last.namePrefix[1] \o <<".">> \o name)

\* C5: a maker whose first parameter is 'name' is called with
\* '<ClassName>.<member>', or '<ClassName>.<instanceName>.<member>' when an
\* instance name is given, and any other maker with the value alone; a
\* nested member is called with '<namePrefix>.<member>', or '<member>' when
\* namePrefix is None.
C5_DottedNames ==
    /\ C5_NamesOfMadeMembers
    /\ (last.op \in {"Transform", "__init__", "InitializeModel"}
            /\ last.result.t = "raise" /\ "maker" \in DOMAIN last.result) =>
           (FirstIsName(last.result.maker) <=> last.result.args.n = 2)

\* ---------------------------------------------------------------- C9

\* C9: RegisterModel(class_) raises ValueError and leaves
\* modelByInterfaceName as it is when the base of class_ is object; otherwise
\* it files class_ under '<module>.<name>' of its base, over any earlier
\* model of that interface, changes no other entry, and returns class_.
C9_RegisterModel ==
    [][ last'.op = "RegisterModel" =>
          IF last'.base = ObjectClass
          THEN /\ last'.result = Raise("ValueError")
               /\ modelByInterfaceName' = modelByInterfaceName
          ELSE LET key == classes[last'.base].module \o <<".">>
                              \o classes[last'.base].name
               IN  /\ last'.result.t = "class"
                   /\ last'.result.cls = Len(classes')
                   /\ classes'[last'.result.cls].base = last'.base
                   /\ DOMAIN modelByInterfaceName' =
                          DOMAIN modelByInterfaceName \cup {key}
                   /\ modelByInterfaceName'[key] = last'.result.cls
                   /\ \A k \in DOMAIN modelByInterfaceName \ {key} :
                          modelByInterfaceName'[k] = modelByInterfaceName[k]
      ]_vars

\* A second model of the same interface has replaced the first, beside the
\* model of another interface.
C9_Witness ==
    /\ last.op = "RegisterModel"
    /\ last.result.t = "class"
    /\ \E ci \in ClassIds :
           /\ ci < last.result.cls
           /\ ~classes[ci].transformed
           /\ classes[ci].base = last.base
           /\ classes[last.base].transformed
           /\ modelByInterfaceName[GetClassName(classes[last.base])]
                  = last.result.cls

\* ---------------------------------------------------------------- C10

\* The member's type has an entry in classByProtoTypeName
IsTransformedMember(protoType, name) ==
    GetClassName(TypeOf(protoType.fields[name])) \in DOMAIN classByProtoTypeName

\* The interface of the member's type has an entry in modelByInterfaceName
HasRegisteredModel(protoType, name) ==
    GetClassName(classes[classByProtoTypeName[
        GetClassName(TypeOf(protoType.fields[name]))]])
            \in DOMAIN modelByInterfaceName

\* C10: GetMemberModel returns None for a member whose type is not
\* transformed, raises RuntimeError for one whose interface has no registered
\* model, and returns the registered model otherwise; it changes neither
\* registry; and InitializeModel raises for a prototype with a member that is
\* transformed and has no registered model.
C10_GetMemberModel ==
    [][ /\ last'.op = "GetMemberModel" =>
              /\ UNCHANGED <<classByProtoTypeName, modelByInterfaceName>>
              /\ last'.result =
                     IF ~IsTransformedMember(last'.protoType, last'.name)
                     THEN NoneV
                     ELSE IF ~HasRegisteredModel(last'.protoType, last'.name)
                     THEN Raise("RuntimeError")
                     ELSE [ t |-> "class",
                            cls |-> modelByInterfaceName[
                                GetClassName(classes[classByProtoTypeName[
                                    GetClassName(TypeOf(
                                        last'.protoType.fields[last'.name]))]])] ]
        /\ ( /\ last'.op = "InitializeModel"
             /\ \E name \in DOMAIN last'.protoType.fields :
                    /\ IsTransformedMember(last'.protoType, name)
                    /\ ~HasRegisteredModel(last'.protoType, name) ) =>
              last'.result = Raise("RuntimeError")
      ]_vars

\* InitializeModel has failed on a member whose type is transformed and has
\* no registered model, while another interface has one.
C10_Witness ==
    /\ last.op = "InitializeModel"
    /\ last.result = Raise("RuntimeError")
    /\ IsTransformedMember(last.protoType, Np)
    /\ modelByInterfaceName # <<>>

\* GetMemberModel has returned the registered model of a member's interface.
C10_WitnessModel ==
    /\ last.op = "GetMemberModel"
    /\ last.result.t = "class"
    /\ ~classes[last.result.cls].transformed

\* ---------------------------------------------------------------- C6

\* The node of the expression is not there yet
Unresolved(expr) ==
    IF expr.t = "CallExpr" THEN expr.callee = NoneV ELSE expr.node = NoneV

\* The expression names a function whose return type is still unbound
UnboundMaker(expr) ==
    /\ expr.t # "CallExpr"
    /\ expr.node # NoneV
    /\ expr.node.t = "FuncDef"
    /\ expr.node.ret_type.t = "UnboundType"

\* The callback left the class's TypeInfo and the registry as they were
PluginUntouched == UNCHANGED pluginVars

\* The expression is resolved to an attribute type: a class, a function that
\* returns an instance of a class, or a call of a resolved functor
ResolvedMaker(expr) ==
    IF expr.t = "CallExpr" THEN expr.callee # NoneV
    ELSE /\ expr.node # NoneV
         /\ \/ expr.node.t = "TypeInfo"
            \/ expr.node.t = "FuncDef" /\ expr.node.ret_type.t = "Instance"

\* C6: a callback that finds the prototype node or the attribute-type node
\* unresolved, or the function maker's return type unbound, on a pass that is
\* not final, defers and changes neither the class's TypeInfo nor
\* typeInfoByProtoTypeName; missing type information makes the callback fail
\* (a message, an exception) only on the final pass; and a callback that finds
\* the prototype resolved and the attribute type resolved to a class
\* transforms the class.
C6_Deferral ==
    [][ last'.op = "callback" =>
          LET missing == \/ Unresolved(last'.proto_type)
                         \/ Unresolved(last'.attribute_type)
                         \/ UnboundMaker(last'.attribute_type)
          IN  /\ (missing /\ ~last'.final) =>
                     (last'.result = Defer /\ PluginUntouched)
              /\ (missing /\ last'.result.t \in {"return", "raise"}) =>
                     last'.final
              /\ ( /\ ~Unresolved(last'.proto_type)
                   /\ ResolvedMaker(last'.attribute_type) ) =>
                     last'.result.t = "transformed" ]_vars

\* The part of C6 that the code keeps: with the prototype node unresolved, or
\* the attribute node of a name or member expression unresolved, or the
\* function maker's return type unbound, a pass that is not final defers and
\* changes nothing, unless the attribute type is a call whose callee is
\* unresolved.
C6_DefersNamedNodes ==
    [][ ( /\ last'.op = "callback"
          /\ ~last'.final
          /\ ~( /\ last'.attribute_type.t = "CallExpr"
                /\ Unresolved(last'.attribute_type) )
          /\ \/ Unresolved(last'.proto_type)
             \/ Unresolved(last'.attribute_type)
             \/ UnboundMaker(last'.attribute_type) ) =>
          (last'.result = Defer /\ PluginUntouched) ]_vars

\* ---------------------------------------------------------------- C7

\* The expression is an unresolved member expression
NeedsLookup(expr) == expr.t = "MemberExpr" /\ expr.node = NoneV

\* The prototype node is there for the lines after the lookup of it
ProtoFound(proto_type) ==
    \/ proto_type.node # NoneV
    \/ /\ NeedsLookup(proto_type)
       /\ lookup_member_expr(proto_type).t = "TypeInfo"

\* The callback came to a call of lookup_member_expr that failed with
\* LookupMemberError
LookupFailed(call) ==
    /\ call.final
    /\ ~( call.attribute_type.t = "CallExpr"
          /\ Unresolved(call.attribute_type) )
    /\ \/ /\ NeedsLookup(call.proto_type)
          /\ lookup_member_expr(call.proto_type) = LookupMemberError
       \/ /\ ProtoFound(call.proto_type)
          /\ NeedsLookup(call.attribute_type)
          /\ lookup_member_expr(call.attribute_type) = LookupMemberError

\* C7: a callback whose lookup_member_expr fails with LookupMemberError, for
\* the prototype expression or for the attribute-type expression, reports
\* it and returns: no exception leaves the callback, and the class's TypeInfo
\* and typeInfoByProtoTypeName stay as they were.
C7_LookupFailureIsNoOp ==
    [][ (last'.op = "callback" /\ LookupFailed(last')) =>
          (last'.result.t = "return" /\ PluginUntouched) ]_vars

\* What the code keeps of C7: the failed lookup changes neither the class's
\* TypeInfo nor the registry, and an exception leaves the callback.
C7_LookupFailureRaises ==
    [][ (last'.op = "callback" /\ LookupFailed(last')) =>
          /\ PluginUntouched
          /\ last'.result =
                 IF ProtoFound(last'.proto_type)
                 THEN Raise("NameError") ELSE LookupMemberError ]_vars

\* ---------------------------------------------------------------- C8

\* The prototypes whose transformed class the runtime registry holds
RuntimePrototypes ==
    { classes[classByProtoTypeName[k]].proto : k \in DOMAIN classByProtoTypeName }

\* The prototypes whose transformed TypeInfo the plugin's registry holds
PluginPrototypes ==
    { pid \in ProtoIds : FullName(pid) \in DOMAIN typeInfoByProtoTypeName }

\* The plugin typed the member with a transformed TypeInfo of the registry
PluginNested(info, name) == info.names[name].type.of = "transformed"

\* The runtime built the member with a transformed class of the registry
RuntimeNested(class_, name) == class_.attrs[name].t = "inst"

\* The class and the TypeInfo have the same members, with the same nesting
SameMembers(class_, info) ==
    /\ DOMAIN info.names = Range(class_.allVars) \cup Range(class_.vars)
    /\ \A name \in DOMAIN info.names \cap Range(class_.allVars) :
           PluginNested(info, name) <=> RuntimeNested(class_, name)

\* What the plugin makes of the prototype, in this state of its registry
PluginSide(pid) ==
    transform_type_info(typeInfoByProtoTypeName, FreshInfo(<<"I">>),
                        ProtoInfo(pid), InfoV, FALSE)

\* What the runtime makes of the prototype, in this state of its registry
RuntimeSide(pid) ==
    TransformCall(Ctx, pid, 1, FALSE, <<"I">>, FALSE, FALSE)

\* C8: whenever one side transforms a prototype in a state in which the same
\* prototypes have been transformed on both sides, the names
\* transform_type_info retypes are the names of __transform_all_vars__ and
\* __transform_vars__ that Transform sets, and the plugin gives a member the
\* nested transformed type exactly when the runtime builds it with the nested
\* transformed class.
C8_PluginMirrorsRuntime ==
    [][ RuntimePrototypes = PluginPrototypes =>
          /\ (last'.op = "Transform" /\ last'.result.t = "class") =>
                 ( ~IsRaise(PluginSide(last'.proto)) =>
                       SameMembers(classes'[last'.result.cls],
                                   PluginSide(last'.proto)) )
          /\ (last'.op = "callback" /\ last'.result.t = "transformed") =>
                 ( ~IsRaise(RuntimeSide(last'.proto_type.node.pid)) =>
                       SameMembers(RuntimeSide(last'.proto_type.node.pid),
                                   last'.result.info) ) ]_vars

\* The part of the mirror that the code keeps: every name the plugin retypes
\* is a name the runtime transforms, for a prototype both sides accept.
C8_PluginNamesAreRuntimeNames ==
    [][ (last'.op = "callback" /\ last'.result.t = "transformed") =>
          ( ~IsRaise(RuntimeSide(last'.proto_type.node.pid)) =>
                DOMAIN last'.result.info.names \subseteq
                    Range(RuntimeSide(last'.proto_type.node.pid).allVars)
                    \cup Range(RuntimeSide(last'.proto_type.node.pid).vars) )
      ]_vars

\* ---------------------------------------------------------------- C11

\* The classes on which __transform_vars__ is found: the classes Transform
\* returned and their subclasses
WithNameLists == { ci \in ClassIds : Owner(classes, ci) # ObjectClass }

\* The prototype of the class that gives ci its name lists
ProtoOf(ci) == classes[Owner(classes, ci)].proto

\* C11: for every class produced by Transform (and every subclass reading
\* its lists), __transform_vars__ is exactly the attrs field names of the
\* prototype, private ones included, in their order; __transform_all_vars__
\* holds no attrs field name and no name starting with '_'; no name is in
\* both lists; and two classes of the same prototype have the same lists.
C11_NameLists ==
    \A ci \in WithNameLists :
        LET instanceVars == GetInstanceVars(classes, ci).keys
            allVars      == GetAllVars(classes, ci).keys
            fields       == Protos[ProtoOf(ci)].fields
        IN  /\ instanceVars = fields
            /\ \A name \in Range(allVars) :
                   name \notin Range(fields) /\ Head(name) # "_"
            /\ Range(instanceVars) \cap Range(allVars) = {}
            /\ \A cj \in WithNameLists :
                   ProtoOf(cj) = ProtoOf(ci) =>
                       /\ GetInstanceVars(classes, cj).keys = instanceVars
                       /\ GetAllVars(classes, cj).keys = allVars

\* A prototype with a private field has been decorated beside a slotted one
\* whose field dir() lists, and a registered model reads the lists of one.
C11_Witness ==
    /\ \E ci \in TransformedIds :
           /\ classes[ci].proto = 3
           /\ classes[ci].vars = <<N_y, Nx>>
           /\ classes[ci].allVars = <<No>>
    /\ \E ci \in TransformedIds :
           /\ classes[ci].proto = 2
           /\ classes[ci].vars = <<Np>>
           /\ Np \in Range(Dir(2))
    /\ \E ci \in WithNameLists : ~classes[ci].transformed

====
